---- MODULE Spec2Model ----
(***************************************************************************)
(* Model of bookmark-dlp: main() of index.js (the batched scheduler, the   *)
(* list and single-index modes) and yt_dlp() of src/downloader.js with the *)
(* thumbnail fetch and the tag write of src/metadata.js.                   *)
(*                                                                         *)
(* Node runs all JavaScript on one thread.  execSync blocks that thread,   *)
(* so while main() is inside batch.map(...) no callback is handled; the    *)
(* callbacks of exec and https.get run only while main() is suspended at   *)
(* an await.  Subprocesses and sockets progress on their own.              *)
(***************************************************************************)
EXTENDS Integers, Sequences, FiniteSets, TLC

VARIABLES
    options,     \* program.opts(): concurrent, index, list, metadata, keyword, output
    source,      \* the links loaded from the bookmarks file or the default list
    links,       \* the link list: as loaded, then after the keyword filter
    dir,         \* the directory options.output: "absent", "present" or "created" by main()
    pc,          \* position of main()
    mode,        \* "none", "batch" or "single": which branch launches tasks
    limit,       \* concurrentLimit = parseInt(options.concurrent)
    i,           \* loop variable of the batch loop
    batch,       \* links.slice(i, i + concurrentLimit), as link positions
    k,           \* position of batch.map inside batch (next to launch)
    task,        \* per link: the state of its yt_dlp promise
    completion,  \* positions of the current batch in the order they settled
    reported,    \* the per-link result lines logged so far, in order
    listing,     \* the lines logged by list mode
    run          \* one call of yt_dlp followed step by step up to its download command

vars == <<options, source, links, dir, pc, mode, limit, i, batch, k, task, completion, reported, listing, run>>

----------------------------------------------------------------------------
(* Bounds *)

MaxLinks == 5

\* the liveness specification runs over link lists up to this length
MaxLiveLinks == 3

\* runs with a keyword or an output directory start from link lists up to this length
MaxFilteredLinks == 3

----------------------------------------------------------------------------
(* JavaScript numbers: an integer or NaN *)

Num(n) == [nan |-> FALSE, n |-> n]

NaN == [nan |-> TRUE, n |-> 0]

JsAdd(a, b) == IF a.nan \/ b.nan THEN NaN ELSE Num(a.n + b.n)

JsLt(a, b) == ~a.nan /\ ~b.nan /\ a.n < b.n

JsGe(a, b) == ~a.nan /\ ~b.nan /\ a.n >= b.n

Digits == {"0", "1", "2", "3", "4", "5", "6", "7", "8", "9"}

DigitVal == ("0" :> 0) @@ ("1" :> 1) @@ ("2" :> 2) @@ ("3" :> 3) @@ ("4" :> 4)
            @@ ("5" :> 5) @@ ("6" :> 6) @@ ("7" :> 7) @@ ("8" :> 8) @@ ("9" :> 9)

RECURSIVE DigitPrefix(_, _, _)
\* the value of the longest digit prefix of s from position p on, acc so far;
\* -1 when no digit has been read
DigitPrefix(s, p, acc) ==
    IF p > Len(s) \/ s[p] \notin Digits
    THEN acc
    ELSE DigitPrefix(s, p + 1, (IF acc < 0 THEN 0 ELSE acc) * 10 + DigitVal[s[p]])

\* parseInt(str): optional sign, then the longest prefix of decimal digits;
\* NaN when there is no digit
ParseInt(s) ==
    LET neg   == Len(s) > 0 /\ s[1] = "-"
        start == IF Len(s) > 0 /\ s[1] \in {"-", "+"} THEN 2 ELSE 1
        v     == DigitPrefix(s, start, -1)
    IN  IF v < 0 THEN NaN ELSE Num(IF neg THEN 0 - v ELSE v)

\* Array.prototype.slice(start, end) on an array of length len: the positions
\* (1-based) it returns.  NaN converts to 0, a negative index counts from the end.
RelIndex(x, len) ==
    LET n == IF x.nan THEN 0 ELSE x.n
    IN  IF n < 0 THEN (IF len + n < 0 THEN 0 ELSE len + n)
        ELSE (IF n > len THEN len ELSE n)

\* variant: the element at `end` belongs to the slice
SliceInclusive(len, start, end) ==
    LET from == RelIndex(start, len)
        to   == RelIndex(JsAdd(end, Num(1)), len)
    IN  IF from >= to THEN <<>> ELSE [j \in 1..(to - from) |-> from + j]

Slice(len, start, end) ==
    LET from == RelIndex(start, len)
        to   == RelIndex(end, len)
    IN  IF from >= to THEN <<>> ELSE [j \in 1..(to - from) |-> from + j]

----------------------------------------------------------------------------
(* JavaScript values.  A string is a sequence of characters. *)

JsUndefined == [t |-> "undefined"]

JsNull == [t |-> "null"]

JsFalse == [t |-> "bool", b |-> FALSE]

JsTrue == [t |-> "bool", b |-> TRUE]

JsNumber(n) == [t |-> "num", n |-> n]

JsStr(s) == [t |-> "str", s |-> s]

\* the object of a metadata line: title and formats may be missing (undefined)
JsObj(title, formats) == [t |-> "obj", title |-> title, formats |-> formats]

JsArray(items) == [t |-> "arr", items |-> items]

\* the truthiness test of if (x), !x and x || y
Truthy(v) ==
    CASE v.t = "bool" -> v.b
      [] v.t \in {"undefined", "null"} -> FALSE
      [] v.t = "num" -> v.n # 0
      [] v.t = "str" -> Len(v.s) > 0
      [] OTHER -> TRUE

\* variant: a missing title reads as the empty string
PropTitleOrEmpty(v) == IF v.t = "obj" /\ Truthy(v.title) THEN v.title ELSE JsStr(<<>>)

\* json.title and json.formats: a property that is not there reads as undefined
PropTitle(v) == IF v.t = "obj" THEN v.title ELSE JsUndefined

PropFormats(v) == IF v.t = "obj" THEN v.formats ELSE JsUndefined

----------------------------------------------------------------------------
(* Command line *)

ConcurrentArgs == { <<"3">>, <<"1">>, <<"2">>, <<"0">>, <<"-", "3">>, <<"a", "b", "c">> }

IndexArgs == { <<"0">>, <<"1">>, <<"9">>, <<"-", "1">>, <<"x">> }

NoIndex == [set |-> FALSE, text |-> <<>>]

\* -k: not given, or a keyword
Keywords == {JsUndefined, JsStr(<<"a">>), JsStr(<<"a", "b">>), JsStr(<<"c">>)}

Dot == <<".">>

\* -o: the default '.', or a directory
Outputs == {Dot, <<"o", "u", "t">>}

\* program.opts(): -m is a flag whose default is true, so metadata is always true
setupCLI ==
    [concurrent : ConcurrentArgs,
     index      : {NoIndex} \cup [set : {TRUE}, text : IndexArgs],
     list       : BOOLEAN,
     metadata   : {TRUE},
     keyword    : Keywords,
     output     : Outputs]

\* the links of the model, in the order they are loaded
LinkPool == << <<"a", "b">>, <<"b">>, <<"a">>, <<"b", "a">>, <<"b", "b">> >>

LinkAt(j) == LinkPool[((j - 1) % Len(LinkPool)) + 1]

\* fetchYoutubeLinks(options.bookmarks), or the default list: n links
Loaded(n) == [j \in 1..n |-> LinkAt(j)]

\* link.includes(keyword)
Includes(link, keyword) ==
    \E p \in 0..(Len(link) - Len(keyword)) : SubSeq(link, p + 1, p + Len(keyword)) = keyword

FilterNothing(ls, keyword) == ls

\* links.filter(link => link.includes(options.keyword))
FilterByKeyword(ls, keyword) ==
    LET Keep(link) == Includes(link, keyword) IN SelectSeq(ls, Keep)

ListLinesFromOne(ls) == [j \in 1..Len(ls) |-> [index |-> j, link |-> ls[j]]]

\* links.forEach((link, index) => log(`${index}: ${link}`)): one line per link
ListLines(ls) == [j \in 1..Len(ls) |-> [index |-> j - 1, link |-> ls[j]]]

\* what becomes of the output directory: nothing when options.output is '.' or
\* the directory exists, else fs.mkdirSync creates it or throws
MkdirOutcomes(output, d) ==
    IF Len(output) > 0 /\ output # Dot /\ d = "absent" THEN {"created", "threw"} ELSE {d}


----------------------------------------------------------------------------
(* The title sanitizer of yt_dlp *)

UpperSeq == <<"A", "B", "C", "D", "E", "F", "G", "H", "I", "J", "K", "L", "M",
              "N", "O", "P", "Q", "R", "S", "T", "U", "V", "W", "X", "Y", "Z">>

LowerSeq == <<"a", "b", "c", "d", "e", "f", "g", "h", "i", "j", "k", "l", "m",
              "n", "o", "p", "q", "r", "s", "t", "u", "v", "w", "x", "y", "z">>

UpperChars == {UpperSeq[j] : j \in 1..26}

LowerChars == {LowerSeq[j] : j \in 1..26}

\* the class [\/\\?%*:|<>]
InvalidChars == {"/", "\\", "?", "%", "*", ":", "|", "<", ">"}

\* \s, as far as titles of the model go
Whitespace == {" ", "\t"}

\* the class [a-zA-Z0-9._-]
KeptChars == UpperChars \cup LowerChars \cup Digits \cup {".", "_", "-"}

ReplaceNothing(s) == s

\* .replace(/[\/\\?%*:|<>]/g, '_')
ReplaceInvalid(s) == [j \in 1..Len(s) |-> IF s[j] \in InvalidChars THEN "_" ELSE s[j]]

RECURSIVE ReplaceWhitespaceRuns(_)
\* .replace(/\s+/g, '_'): every maximal run of whitespace becomes one '_'
ReplaceWhitespaceRuns(s) ==
    IF s = <<>> THEN <<>>
    ELSE LET rest == ReplaceWhitespaceRuns(Tail(s))
         IN  IF Head(s) \in Whitespace
             THEN (IF Len(s) > 1 /\ s[2] \in Whitespace THEN rest ELSE <<"_">> \o rest)
             ELSE <<Head(s)>> \o rest

IsKept(c) == c \in KeptChars

\* .replace(/[^a-zA-Z0-9._-]/g, '')
RemoveOthers(s) == SelectSeq(s, IsKept)

LowerOf(c) ==
    IF c \in UpperChars THEN LowerSeq[CHOOSE j \in 1..26 : UpperSeq[j] = c] ELSE c

KeepCase(s) == s

\* .toLowerCase(), on what RemoveOthers leaves
ToLowerCase(s) == [j \in 1..Len(s) |-> LowerOf(s[j])]

Sanitize(title) == ToLowerCase(RemoveOthers(ReplaceWhitespaceRuns(ReplaceInvalid(title))))

----------------------------------------------------------------------------
(* yt_dlp: from the probe to the download command *)

\* JSON.parse throws on this line
NotJson == [t |-> "notjson"]

\* one line of the probe's output: what JSON.parse makes of it, and whether
\* its text contains 'Video unavailable'
Line(json, marker) == [json |-> json, marker |-> marker]

\* isJsonString(str): the parsed value, or false when JSON.parse throws
isJsonString(line) == IF line.json = NotJson THEN JsFalse ELSE line.json

ExecSyncNeverThrows(x) == FALSE

\* execSync throws: the tool cannot be spawned or exits with a non-zero status
ExecSyncThrows(x) == x.threw

HasUnavailableMarkerFirstLine(output) == Len(output) > 0 /\ output[1].marker

\* output.includes('Video unavailable')
HasUnavailableMarker(output) == \E j \in 1..Len(output) : output[j].marker

NotFalse(v) == v # JsFalse

\* output.split('\n').map(isJsonString).filter(l => l !== false)
ParsedValues(output) ==
    SelectSeq([j \in 1..Len(output) |-> isJsonString(output[j])], NotFalse)

\* const [json] = ...: the first element, undefined when there is none
FirstOf(values) == IF values = <<>> THEN JsUndefined ELSE values[1]

AudioOnlyLabel == <<"a", "u", "d", "i", "o", " ", "o", "n", "l", "y">>

\* f?.resolution == 'audio only'
IsAudioOnly(f) == f.resolution = AudioOnlyLabel

\* formats, filtered when options.audioOnly is set
Candidates(formats, audioOnly) ==
    IF audioOnly THEN SelectSeq(formats, IsAudioOnly) ELSE formats

\* formats.map(a => a.format_id)
FormatIdsOf(formats) == [j \in 1..Len(formats) |-> formats[j].format_id]

SelectedFormatLast(explicit, formatIds) ==
    IF Truthy(explicit) THEN explicit ELSE formatIds[Len(formatIds)]

\* options.formatId || formatIds[0]
SelectedFormat(explicit, formatIds) == IF Truthy(explicit) THEN explicit ELSE formatIds[1]

\* the outcome of the synchronous part of yt_dlp on input x: "ok" when the
\* download command is launched, else the kind of the error that rejects
ProbeOutcome(x) ==
    IF ExecSyncThrows(x) THEN "ToolFailure"
    ELSE IF HasUnavailableMarker(x.output) THEN "VideoUnavailable"
    ELSE LET json == FirstOf(ParsedValues(x.output))
         IN  IF ~Truthy(json) THEN "Unparseable"
             ELSE IF PropTitle(json).t # "str" THEN "NoTitle"
             ELSE IF PropFormats(json).t # "arr" THEN "NoFormat"
             ELSE IF FormatIdsOf(Candidates(PropFormats(json).items, x.audioOnly)) = <<>>
                  THEN "NoFormat"
             ELSE "ok"

(* Inputs *)

MaxTitleLen == 3

MaxOutputLines == 2

TitleChars == {"A", "b", "1", " ", "\t", "/", "!", "_", ".", "-"}

RECURSIVE StringsUpTo(_, _)
StringsUpTo(chars, n) ==
    IF n = 0 THEN {<<>>}
    ELSE LET shorter == StringsUpTo(chars, n - 1)
         IN  shorter \cup {Append(t, c) : t \in shorter, c \in chars}

\* "My Video: Part 1/2"
ExampleTitle == <<"M", "y", " ", "V", "i", "d", "e", "o", ":", " ",
                  "P", "a", "r", "t", " ", "1", "/", "2">>

Titles == StringsUpTo(TitleChars, MaxTitleLen) \cup {ExampleTitle}

Format(id, resolution) == [format_id |-> JsStr(id), resolution |-> resolution]

Video18 == Format(<<"1", "8">>, <<"6", "4", "0", "x", "3", "6", "0">>)

Video22 == Format(<<"2", "2">>, <<"1", "2", "8", "0", "x", "7", "2", "0">>)

Audio139 == Format(<<"1", "3", "9">>, AudioOnlyLabel)

Audio140 == Format(<<"1", "4", "0">>, AudioOnlyLabel)

\* a label that differs from 'audio only' in case only
Other141 == Format(<<"1", "4", "1">>, <<"A", "u", "d", "i", "o", " ", "O", "n", "l", "y">>)

FormatLists == { <<>>, <<Video18>>, <<Audio139, Audio140>>, <<Video18, Audio140, Audio139>>,
                 <<Audio140, Video22>>, <<Other141, Video18>> }

GoodFormats == <<Video18, Audio140, Audio139>>

GoodObject == JsObj(JsStr(<<"b">>), JsArray(GoodFormats))

\* progress text, an error text with the marker, JSON lines of several values,
\* a metadata line, and a metadata line whose text contains the marker
StructureLines ==
    { Line(NotJson, FALSE), Line(NotJson, TRUE),
      Line(JsFalse, FALSE), Line(JsNull, FALSE), Line(JsNumber(7), FALSE),
      Line(GoodObject, FALSE), Line(GoodObject, TRUE) }

RECURSIVE OutputsUpTo(_)
OutputsUpTo(n) ==
    IF n = 0 THEN {<<>>}
    ELSE LET shorter == OutputsUpTo(n - 1)
         IN  shorter \cup {Append(o, ln) : o \in shorter, ln \in StructureLines}

ExplicitFormats == {JsUndefined, JsStr(<<"2", "2">>)}

\* the tool's behaviour and the options of the call
ProbeInputTo(threw, output, audioOnly, formatId, outputDir, format) ==
    [threw |-> threw, output |-> output, audioOnly |-> audioOnly, formatId |-> formatId,
     outputDir |-> outputDir, format |-> format]

\* a call without options.outputDir and options.format
ProbeInput(threw, output, audioOnly, formatId) ==
    ProbeInputTo(threw, output, audioOnly, formatId, JsUndefined, JsUndefined)

\* options.outputDir: missing, empty, '.', a directory, a nested directory
OutputDirs ==
    {JsUndefined, JsStr(<<>>), JsStr(Dot), JsStr(<<"o", "u", "t">>), JsStr(<<"a", "/", "b">>)}

\* options.format: missing, empty, 'mp3', 'm4a'
OutputFormats == {JsUndefined, JsStr(<<>>), JsStr(<<"m", "p", "3">>), JsStr(<<"m", "4", "a">>)}

\* the tool prints lines of every kind and execSync throws or returns them; or it
\* returns one metadata line with any title; or one metadata line with some title
\* and any format list; or one metadata line, with any output directory and format
ProbeInputs ==
    {ProbeInput(th, o, a, f) :
         th \in BOOLEAN, o \in OutputsUpTo(MaxOutputLines), a \in BOOLEAN, f \in ExplicitFormats}
    \cup {ProbeInput(FALSE, <<Line(JsObj(JsStr(t), JsArray(GoodFormats)), FALSE)>>,
                     TRUE, JsUndefined) : t \in Titles}
    \cup {ProbeInput(FALSE, <<Line(JsObj(t, fs), FALSE)>>, a, f) :
             t \in {JsUndefined, JsNumber(5), JsStr(<<>>), JsStr(<<"b">>), JsStr(<<"!">>)},
             fs \in {JsUndefined} \cup {JsArray(fl) : fl \in FormatLists},
             a \in BOOLEAN, f \in ExplicitFormats}
    \cup {ProbeInputTo(FALSE, <<Line(JsObj(JsStr(t), JsArray(GoodFormats)), FALSE)>>,
                       TRUE, JsUndefined, d, e) :
             t \in {<<"b">>, <<"A", " ", "b">>}, d \in OutputDirs, e \in OutputFormats}

----------------------------------------------------------------------------
(* Tasks *)

ErrorKinds == {"ToolFailure", "VideoUnavailable", "Unparseable", "NoTitle", "NoFormat",
               "DownloadError"}

\* what the synchronous part of yt_dlp can come to: "ok", "ToolFailure",
\* "VideoUnavailable", "Unparseable", "NoTitle", "NoFormat"
ProbeOutcomes == {ProbeOutcome(x) : x \in ProbeInputs}

NewTask == [state |-> "NotStarted", kind |-> "none", dl |-> "none",
            thumb |-> "none", tag |-> "none", tagged |-> "none"]

Settled(t) == t.state \in {"Done", "Failed"}

Started(t) == t.state # "NotStarted"

\* variant: the probe is asynchronous and callbacks run at any time
IdleAlways == TRUE

\* the JavaScript thread is free to run callbacks: main() is suspended at an await
Idle == pc = "await"

N == Len(links)

Status(t) == IF t.state = "Done" THEN "fulfilled" ELSE "rejected"

\* no call of yt_dlp is followed step by step
NoRun == [pc |-> "none"]

----------------------------------------------------------------------------
(* Initial state: the options are parsed and the link list is loaded *)

Init ==
    /\ options \in setupCLI
    /\ source \in {Loaded(n) : n \in 0..MaxLinks}
    /\ links = source
    /\ (options.keyword # JsUndefined \/ options.output # Dot) => Len(source) <= MaxFilteredLinks
    /\ dir \in (IF options.output = Dot THEN {"present"} ELSE {"absent", "present"})
    /\ pc = "start"
    /\ mode = "none"
    /\ limit = NaN
    /\ i = Num(0)
    /\ batch = <<>>
    /\ k = 1
    /\ task = [l \in 1..MaxLinks |-> NewTask]
    /\ completion = <<>>
    /\ reported = <<>>
    /\ listing = <<>>
    /\ run = NoRun

----------------------------------------------------------------------------
(* main(): everything up to the first task *)

\* the loop variable below -N only ever yields empty slices; it is kept at this floor
MinLoopIndex == 0 - (MaxLinks + 1)

Floor(x) == IF ~x.nan /\ x.n < MinLoopIndex THEN Num(MinLoopIndex) ELSE x

ValidIndexUpToLength(idx, n) == JsGe(idx, Num(0)) /\ ~JsLt(Num(n), idx) /\ ~idx.nan

ValidIndex(idx, n) == JsGe(idx, Num(0)) /\ JsLt(idx, Num(n))

\* no links in the bookmarks file, the keyword filter, list mode, the output
\* directory, single-index mode, or entry into the batch loop
MainStart ==
    /\ pc = "start"
    /\ LET filtered == IF Truthy(options.keyword)
                       THEN FilterByKeyword(links, options.keyword.s) ELSE links
       IN  IF links = <<>>
           THEN /\ pc' = "noLinks"
                /\ UNCHANGED <<links, dir, mode, limit, batch, k, listing>>
           ELSE /\ links' = filtered
                /\ IF options.list
                   THEN /\ pc' = "listed"
                        /\ listing' = ListLines(filtered)
                        /\ UNCHANGED <<dir, mode, limit, batch, k>>
                   ELSE \E made \in MkdirOutcomes(options.output, dir) :
                        IF made = "threw"
                        THEN /\ pc' = "caught"
                             /\ UNCHANGED <<dir, mode, limit, batch, k, listing>>
                        ELSE /\ dir' = made
                             /\ UNCHANGED listing
                             /\ IF options.index.set
                                THEN LET index == ParseInt(options.index.text)
                                     IN  IF ValidIndex(index, Len(filtered))
                                         THEN /\ pc' = "map"
                                              /\ mode' = "single"
                                              /\ batch' = <<index.n + 1>>
                                              /\ k' = 1
                                              /\ UNCHANGED limit
                                         ELSE /\ pc' = "invalidIndex"
                                              /\ UNCHANGED <<mode, limit, batch, k>>
                                ELSE /\ pc' = "loop"
                                     /\ mode' = "batch"
                                     /\ limit' = ParseInt(options.concurrent)
                                     /\ UNCHANGED <<batch, k>>
    /\ UNCHANGED <<run, options, source, i, task, completion, reported>>

\* for (let i = 0; i < links.length; ...) { const batch = links.slice(i, i + concurrentLimit)
LoopHead ==
    /\ pc = "loop"
    /\ IF JsLt(i, Num(N))
       THEN /\ batch' = Slice(N, i, JsAdd(i, limit))
            /\ k' = 1
            /\ completion' = <<>>
            /\ pc' = "map"
       ELSE /\ pc' = "done"
            /\ UNCHANGED <<batch, k, completion>>
    /\ UNCHANGED <<run, listing, options, source, links, dir, mode, limit, i, task, reported>>

----------------------------------------------------------------------------
(* yt_dlp(link, options) *)

\* batch.map calls yt_dlp for the next link; the promise executor runs at once
\* and blocks the thread in execSync (the probe)
StartProbe(l) ==
    /\ pc = "map"
    /\ k <= Len(batch)
    /\ l = batch[k]
    /\ task[l].state = "NotStarted"
    /\ task' = [task EXCEPT ![l].state = "Probing"]
    /\ UNCHANGED <<run, listing, options, source, links, dir, pc, mode, limit, i, batch, k, completion, reported>>

\* execSync returns or throws; the output is parsed, the format selected and
\* the download launched with exec, or the promise is rejected in the catch
ProbeReturn(l) ==
    /\ pc = "map"
    /\ task[l].state = "Probing"
    /\ \E r \in ProbeOutcomes :
        IF r = "ok"
        THEN /\ task' = [task EXCEPT ![l].state = "Downloading", ![l].dl = "running"]
             /\ UNCHANGED completion
        ELSE /\ task' = [task EXCEPT ![l].state = "Failed", ![l].kind = r]
             /\ completion' = Append(completion, l)
    /\ k' = k + 1
    /\ UNCHANGED <<run, listing, options, source, links, dir, pc, mode, limit, i, batch, reported>>

\* batch.map has called yt_dlp for every link of the batch; main() awaits
MapEnd ==
    /\ pc = "map"
    /\ k > Len(batch)
    /\ pc' = "await"
    /\ UNCHANGED <<run, listing, options, source, links, dir, mode, limit, i, batch, k, task, completion, reported>>

\* the download subprocess exits, with or without an error
DownloadExit(l) ==
    /\ task[l].state = "Downloading"
    /\ task[l].dl = "running"
    /\ \E e \in {"exitedOk", "exitedErr"} : task' = [task EXCEPT ![l].dl = e]
    /\ UNCHANGED <<run, listing, options, source, links, dir, pc, mode, limit, i, batch, k, completion, reported>>

\* variant: the promise is settled without waiting for the subprocess
CallbackAnytime(t) == t.dl \in {"running", "exitedOk", "exitedErr"}

\* exec calls back only after the subprocess has exited
CallbackReady(t) == t.dl \in {"exitedOk", "exitedErr"}

\* variant: a missing thumbnail fails the task
AfterThumbnailStrict(t, buf) ==
    [t EXCEPT !.thumb = buf, !.state = IF buf = "null" THEN "Failed" ELSE "TagReady"]

\* the state of a task once its thumbnail promise has resolved with buf
AfterThumbnail(t, buf) == [t EXCEPT !.thumb = buf, !.state = "TagReady"]

\* what NodeID3.write(tags, filePath) can come to: it returns true, or it reports
\* a failure by returning false or an Error object, or it throws
TagWriteOutcomes == {"true", "false", "error", "threw"}

\* what addMetadata resolves with: resolve(success), the value write returned,
\* and resolve(false) in the catch
AddMetadataResult(w) == IF w = "threw" THEN "false" ELSE w

\* variant: a tag write that throws fails the task
AfterTagWriteStrict(t, w) ==
    [t EXCEPT !.tag = w, !.tagged = AddMetadataResult(w),
              !.state = IF w = "threw" THEN "Failed" ELSE "Tagged"]

\* the state of a task once addMetadata has resolved (w: the write's outcome)
AfterTagWrite(t, w) ==
    [t EXCEPT !.tag = w, !.tagged = AddMetadataResult(w), !.state = "Tagged"]

\* the callback of exec
DownloadCallback(l) ==
    /\ Idle
    /\ task[l].state = "Downloading"
    /\ CallbackReady(task[l])
    /\ IF task[l].dl = "exitedErr"
       THEN /\ task' = [task EXCEPT ![l].state = "Failed", ![l].kind = "DownloadError"]
            /\ completion' = Append(completion, l)
       ELSE IF options.metadata = FALSE
       THEN /\ task' = [task EXCEPT ![l].state = "Done"]
            /\ completion' = Append(completion, l)
       ELSE /\ \E thumbnail \in {"absent", "issued", "threw"} :
                 CASE thumbnail = "absent" ->
                        \E w \in TagWriteOutcomes :
                            task' = [task EXCEPT ![l] = AfterTagWrite(@, w)]
                   [] thumbnail = "issued" ->
                        task' = [task EXCEPT ![l].state = "Thumbnail"]
                   [] thumbnail = "threw" ->
                        task' = [task EXCEPT ![l] = AfterThumbnail(@, "null")]
            /\ UNCHANGED completion
    /\ UNCHANGED <<run, listing, options, source, links, dir, pc, mode, limit, i, batch, k, reported>>

\* the response callback of https.get, or the 'error' event of the request
ThumbResponse(l) ==
    /\ Idle
    /\ task[l].state = "Thumbnail"
    /\ \E s \in {"200", "non200", "error"} :
        IF s = "200"
        THEN task' = [task EXCEPT ![l].state = "ThumbBody"]
        ELSE task' = [task EXCEPT ![l] = AfterThumbnail(@, "null")]
    /\ UNCHANGED <<run, listing, options, source, links, dir, pc, mode, limit, i, batch, k, completion, reported>>

\* the 'end' event of the response: the buffered body is the thumbnail
ThumbEnd(l) ==
    /\ Idle
    /\ task[l].state = "ThumbBody"
    /\ task' = [task EXCEPT ![l] = AfterThumbnail(@, "buffer")]
    /\ UNCHANGED <<run, listing, options, source, links, dir, pc, mode, limit, i, batch, k, completion, reported>>

\* the socket fails while the body is read: the request emits 'error'
ThumbBodyError(l) ==
    /\ Idle
    /\ task[l].state = "ThumbBody"
    /\ task' = [task EXCEPT ![l] = AfterThumbnail(@, "null")]
    /\ UNCHANGED <<run, listing, options, source, links, dir, pc, mode, limit, i, batch, k, completion, reported>>

\* the connection is closed before the body is complete: the response is aborted
\* and emits neither 'end' nor an event the code listens to, and the request
\* emits no 'error', so the thumbnail promise stays pending
ThumbAbort(l) ==
    /\ task[l].state = "ThumbBody"
    /\ task' = [task EXCEPT ![l].state = "ThumbHung"]
    /\ UNCHANGED <<run, listing, options, source, links, dir, pc, mode, limit, i, batch, k, completion, reported>>

\* await addMetadata(outputPath, metadata)
TagWrite(l) ==
    /\ Idle
    /\ task[l].state = "TagReady"
    /\ \E w \in TagWriteOutcomes :
        task' = [task EXCEPT ![l] = AfterTagWrite(@, w)]
    /\ UNCHANGED <<run, listing, options, source, links, dir, pc, mode, limit, i, batch, k, completion, reported>>

\* resolve({title, path, status: 'success'})
Resolve(l) ==
    /\ Idle
    /\ task[l].state = "Tagged"
    /\ task' = [task EXCEPT ![l].state = "Done"]
    /\ completion' = Append(completion, l)
    /\ UNCHANGED <<run, listing, options, source, links, dir, pc, mode, limit, i, batch, k, reported>>

----------------------------------------------------------------------------
(* main(): after the await *)

\* variant: main() resumes as soon as one promise of the batch has settled
AnySettled(b) == \E j \in 1..Len(b) : Settled(task[b[j]])

\* Promise.allSettled(downloadPromises) resolves once every promise has settled
AllSettled(b) == \A j \in 1..Len(b) : Settled(task[b[j]])

\* variant: Promise.all, which rejects when a promise of the batch is rejected
BatchRejectsOnFailure(b) == \E j \in 1..Len(b) : task[b[j]].state = "Failed"

\* Promise.allSettled never rejects
BatchRejects(b) == FALSE

\* variant: the results are collected in completion order
ResultOfCompletion(b, c, index) == task[c[index]]

\* results[index] is the outcome of the task of batch[index]
ResultOf(b, c, index) == task[b[index]]

\* the line logged for results[index]
ResultLine(b, c, index) ==
    [link |-> b[index], status |-> Status(ResultOf(b, c, index))]

\* the task's probe result, buffers and error object are released when it is over
Release(t) == [t EXCEPT !.kind = "none", !.thumb = "none", !.tag = "none", !.tagged = "none"]

\* the batch has settled: log one line per result, go to the next batch
Report ==
    /\ pc = "await"
    /\ mode = "batch"
    /\ AllSettled(batch)
    /\ IF BatchRejects(batch)
       THEN /\ pc' = "caught"
            /\ UNCHANGED <<i, reported>>
       ELSE /\ reported' = reported \o [j \in 1..Len(batch) |-> ResultLine(batch, completion, j)]
            /\ i' = Floor(JsAdd(i, limit))
            /\ pc' = "loop"
    /\ task' = [l \in 1..MaxLinks |->
                   IF \E j \in 1..Len(batch) : batch[j] = l THEN Release(task[l]) ELSE task[l]]
    /\ UNCHANGED <<run, listing, options, source, links, dir, mode, limit, batch, k, completion>>

\* variant: no try/catch around the await, the rejection leaves main()
SingleEndUncaught(t) == IF t.state = "Done" THEN "singleDone" ELSE "uncaught"

\* where main() ends after the await of single-index mode: after the log of
\* completion, or in the catch that logs the error
SingleEnd(t) == IF t.state = "Done" THEN "singleDone" ELSE "caught"

\* await yt_dlp(links[index], ...) in single-index mode: a rejection is thrown
\* into the catch of main()
SingleResume ==
    /\ pc = "await"
    /\ mode = "single"
    /\ AllSettled(batch)
    /\ pc' = SingleEnd(task[batch[1]])
    /\ task' = [task EXCEPT ![batch[1]] = Release(@)]
    /\ UNCHANGED <<run, listing, options, source, links, dir, mode, limit, i, batch, k, completion, reported>>

----------------------------------------------------------------------------
(* Specifications *)

TaskStep(l) ==
    \/ StartProbe(l)
    \/ ProbeReturn(l)
    \/ DownloadExit(l)
    \/ DownloadCallback(l)
    \/ ThumbResponse(l)
    \/ ThumbEnd(l)
    \/ ThumbBodyError(l)
    \/ TagWrite(l)
    \/ Resolve(l)

MainStep == MainStart \/ LoopHead \/ MapEnd \/ Report \/ SingleResume

Next ==
    \/ MainStep
    \/ \E l \in 1..MaxLinks : TaskStep(l)
    \/ \E l \in 1..MaxLinks : ThumbAbort(l)

Spec == Init /\ [][Next]_vars

\* every external call returns: no response body is cut off, and every
\* subprocess, request and callback that can make a step eventually makes it
NextReturns ==
    \/ MainStep
    \/ \E l \in 1..MaxLinks : TaskStep(l)

\* the liveness specification runs without a keyword, into the current directory
LiveInit ==
    /\ Init
    /\ N <= MaxLiveLinks
    /\ options.keyword = JsUndefined
    /\ options.output = Dot

LiveSpec ==
    /\ LiveInit
    /\ [][NextReturns]_vars
    /\ WF_vars(MainStep)
    /\ \A l \in 1..MaxLinks : WF_vars(TaskStep(l))

----------------------------------------------------------------------------
(* The output path of yt_dlp *)

Slash == "/"

\* s.split('/') from position j on, cur being the segment in progress
RECURSIVE Segments(_, _, _)
Segments(s, j, cur) ==
    IF j > Len(s) THEN <<cur>>
    ELSE IF s[j] = Slash THEN <<cur>> \o Segments(s, j + 1, <<>>)
    ELSE Segments(s, j + 1, Append(cur, s[j]))

\* path.normalize on segments: empty and '.' segments go, '..' takes back the
\* segment before it
RECURSIVE NormalizeSegments(_, _)
NormalizeSegments(segs, acc) ==
    IF segs = <<>> THEN acc
    ELSE LET h == Head(segs)
         IN  IF h = <<>> \/ h = <<".">> THEN NormalizeSegments(Tail(segs), acc)
             ELSE IF h = <<".", ".">> /\ acc # <<>> /\ acc[Len(acc)] # <<".", ".">>
                  THEN NormalizeSegments(Tail(segs), SubSeq(acc, 1, Len(acc) - 1))
             ELSE NormalizeSegments(Tail(segs), Append(acc, h))

RECURSIVE JoinSegments(_)
JoinSegments(segs) ==
    IF segs = <<>> THEN <<>>
    ELSE IF Len(segs) = 1 THEN segs[1]
    ELSE segs[1] \o <<Slash>> \o JoinSegments(Tail(segs))

\* path.join(a, b) for a relative directory a and a file name b
PathJoin(a, b) ==
    LET joined == IF a = <<>> THEN b ELSE a \o <<Slash>> \o b
        body == JoinSegments(NormalizeSegments(Segments(joined, 1, <<>>), <<>>))
    IN  IF body = <<>> THEN <<".">> ELSE body

\* v || d for a string option
OrDefault(v, d) == IF Truthy(v) THEN v.s ELSE d

\* variant: the file is written to the current directory
OutputPathInCwd(outputDir, title, format) ==
    title \o <<".">> \o OrDefault(format, <<"m", "p", "3">>)

\* path.join(options.outputDir || '.', `${title}.${options.format || 'mp3'}`)
OutputPath(outputDir, title, format) ==
    PathJoin(OrDefault(outputDir, <<".">>), title \o <<".">> \o OrDefault(format, <<"m", "p", "3">>))

----------------------------------------------------------------------------
(* yt_dlp step by step, on one call with a given tool output and options *)

NoCommand == [launched |-> FALSE, formatId |-> JsUndefined, stem |-> <<>>, outputPath |-> <<>>]

\* exec(`yt-dlp "${link}" -f ${formatId} -o "${outputPath}"`, ...), where the file
\* name of outputPath is `${title}.${options.format || 'mp3'}`
DownloadCommand(formatId, stem, outputPath) ==
    [launched |-> TRUE, formatId |-> formatId, stem |-> stem, outputPath |-> outputPath]

StartOfRun(x) ==
    [pc |-> "execSync", in |-> x, probes |-> 0, parsed |-> FALSE, json |-> JsUndefined,
     stem |-> <<>>, formatId |-> JsUndefined, outputPath |-> <<>>, execs |-> 0,
     cmd |-> NoCommand, error |-> "none"]

\* catch (error) { ...; reject(error); }
Catch(r, kind) == [r EXCEPT !.pc = "rejected", !.error = kind]

mainVars == <<options, source, links, dir, pc, mode, limit, i, batch, k, task, completion, reported,
             listing>>

\* const output = execSync(`yt-dlp -F -J "${link}"`, {encoding: 'utf8'})
ExecSyncProbe ==
    /\ run.pc = "execSync"
    /\ LET r == [run EXCEPT !.probes = @ + 1]
       IN  run' = IF ExecSyncThrows(run.in) THEN Catch(r, "ToolFailure")
                  ELSE [r EXCEPT !.pc = "checkUnavailable"]
    /\ UNCHANGED mainVars

\* if (output.includes('Video unavailable')) throw ...
CheckUnavailable ==
    /\ run.pc = "checkUnavailable"
    /\ run' = IF HasUnavailableMarker(run.in.output) THEN Catch(run, "VideoUnavailable")
              ELSE [run EXCEPT !.pc = "parse"]
    /\ UNCHANGED mainVars

\* const [json] = ...; if (!json) throw ...
ParseOutput ==
    /\ run.pc = "parse"
    /\ LET json == FirstOf(ParsedValues(run.in.output))
           r == [run EXCEPT !.parsed = TRUE, !.json = json]
       IN  run' = IF ~Truthy(json) THEN Catch(r, "Unparseable")
                  ELSE [r EXCEPT !.pc = "sanitize"]
    /\ UNCHANGED mainVars

\* const title = json.title.replace(...)...: a TypeError when title is no string
SanitizeTitle ==
    /\ run.pc = "sanitize"
    /\ LET title == PropTitle(run.json)
       IN  run' = IF title.t # "str" THEN Catch(run, "NoTitle")
                  ELSE [run EXCEPT !.pc = "selectFormat", !.stem = Sanitize(title.s)]
    /\ UNCHANGED mainVars

\* formats and formatIds; if (formatIds.length === 0) throw ...;
\* const formatId = options.formatId || formatIds[0]; const outputPath = ...
SelectFormat ==
    /\ run.pc = "selectFormat"
    /\ LET formats == PropFormats(run.json)
       IN  run' = IF formats.t # "arr" THEN Catch(run, "NoFormat")
                  ELSE LET formatIds == FormatIdsOf(Candidates(formats.items, run.in.audioOnly))
                       IN  IF formatIds = <<>> THEN Catch(run, "NoFormat")
                           ELSE [run EXCEPT !.pc = "exec",
                                            !.formatId = SelectedFormat(run.in.formatId, formatIds),
                                            !.outputPath = OutputPath(run.in.outputDir, run.stem,
                                                                      run.in.format)]
    /\ UNCHANGED mainVars

\* exec(downloadCmd, callback)
LaunchDownload ==
    /\ run.pc = "exec"
    /\ run' = [run EXCEPT !.pc = "launched", !.execs = @ + 1,
                          !.cmd = DownloadCommand(run.formatId, run.stem, run.outputPath)]
    /\ UNCHANGED mainVars

ProbeInit ==
    /\ run \in {StartOfRun(x) : x \in ProbeInputs}
    /\ options = CHOOSE o \in setupCLI : TRUE
    /\ source = <<>>
    /\ links = <<>>
    /\ dir = "present"
    /\ pc = "start"
    /\ mode = "none"
    /\ limit = NaN
    /\ i = Num(0)
    /\ batch = <<>>
    /\ k = 1
    /\ task = [l \in 1..MaxLinks |-> NewTask]
    /\ completion = <<>>
    /\ reported = <<>>
    /\ listing = <<>>

ProbeNext ==
    \/ ExecSyncProbe
    \/ CheckUnavailable
    \/ ParseOutput
    \/ SanitizeTitle
    \/ SelectFormat
    \/ LaunchDownload

ProbeSpec == ProbeInit /\ [][ProbeNext]_vars

----------------------------------------------------------------------------
(* The callback of exec and addMetadata step by step, on one finished download *)

MaxDateLen == 5

DateChars == {"2", "0", "x"}

\* json.upload_date: missing, null, a number, or a string
UploadDates ==
    {JsUndefined, JsNull, JsNumber(2024)} \cup {JsStr(d) : d \in StringsUpTo(DateChars, MaxDateLen)}

ExampleDate == JsStr(<<"2", "0", "2", "4", "0", "1", "1", "5">>)

JsBuffer == [t |-> "buffer"]

\* str.substring(0, end)
Substring0(str, end) == SubSeq(str, 1, IF end < Len(str) THEN end ELSE Len(str))

\* year: metadata.uploadDate ? metadata.uploadDate.substring(0, 4) : ''
\* (a value that is truthy and no string has no substring: a TypeError)
YearThrows(uploadDate) == Truthy(uploadDate) /\ uploadDate.t # "str"

YearTag(uploadDate) == IF Truthy(uploadDate) THEN Substring0(uploadDate.s, 4) ELSE <<>>

\* image: { mime: 'image/jpeg', type: { id: 3, name: 'front cover' }, ...,
\*          imageBuffer: metadata.thumbnailBuffer }
ImageEntry(thumbnailBuffer) ==
    [t |-> "obj", mime |-> "image/jpeg", type |-> "front cover", imageBuffer |-> thumbnailBuffer]

\* const tags = { ..., year, ..., image }
Tags(metadata) ==
    [year |-> YearTag(metadata.uploadDate), image |-> ImageEntry(metadata.thumbnailBuffer)]

NoTags == [year |-> <<>>, image |-> JsUndefined]

DownloadFailedOrStderr(x) == x.error \/ Truthy(x.stderr)

\* if (error) { ...; reject(error); return; }
DownloadFailed(x) == x.error

TaggingEnabledWhenTruthy(addMetadata) == Truthy(addMetadata)

\* if (options.addMetadata !== false)
TaggingEnabled(addMetadata) == addMetadata # JsFalse

CallbackInput(error, stderr, addMetadata, thumbnail, fetch, uploadDate, write) ==
    [error |-> error, stderr |-> stderr, addMetadata |-> addMetadata, thumbnail |-> thumbnail,
     fetch |-> fetch, uploadDate |-> uploadDate, write |-> write]

ThumbnailUrl == JsStr(<<"u">>)

\* a finished download with every combination of error, stderr, addMetadata,
\* thumbnail, fetch result and write outcome; and a good one with every upload date
CallbackInputs ==
    {CallbackInput(e, se, am, th, fe, ud, w) :
         e \in BOOLEAN, se \in {JsStr(<<>>), JsStr(<<"W">>)},
         am \in {JsTrue, JsFalse, JsUndefined}, th \in {JsUndefined, ThumbnailUrl},
         fe \in {JsBuffer, JsNull}, ud \in {JsUndefined, ExampleDate}, w \in TagWriteOutcomes}
    \cup {CallbackInput(FALSE, JsStr(<<>>), JsTrue, ThumbnailUrl, JsBuffer, ud, "true") :
             ud \in UploadDates}

\* the promise of yt_dlp is pending
NoValue == [title |-> <<>>, path |-> <<>>, status |-> "pending"]

\* resolve({ title, path: outputPath, status: 'success' })
SuccessValue(title, outputPath) == [title |-> title, path |-> outputPath, status |-> "success"]

Resolved(r) == [r EXCEPT !.pc = "resolved", !.value = SuccessValue(r.stem, r.outputPath)]

\* the closure of the callback holds title and outputPath of a call whose probe
\* gave the title 'b', without options.outputDir and options.format
StartOfCallback(x) ==
    [pc |-> "callback", in |-> x, stem |-> <<"b">>,
     outputPath |-> OutputPath(JsUndefined, <<"b">>, JsUndefined),
     warned |-> FALSE, gets |-> 0,
     metadata |-> [uploadDate |-> JsUndefined, thumbnailBuffer |-> JsUndefined],
     calls |-> 0, filePath |-> <<>>, tags |-> NoTags, writes |-> 0, written |-> FALSE,
     tagged |-> "none", value |-> NoValue]

\* the callback of exec, up to the metadata block
ExecCallback ==
    /\ run.pc = "callback"
    /\ run' = IF DownloadFailed(run.in) THEN [run EXCEPT !.pc = "rejected"]
              ELSE LET r == [run EXCEPT !.warned = Truthy(run.in.stderr)]
                   IN  IF TaggingEnabled(run.in.addMetadata)
                       THEN [r EXCEPT !.pc = "metadata"] ELSE Resolved(r)
    /\ UNCHANGED mainVars

\* variant: the thumbnail is requested whether or not there is a URL
HasThumbnailAlways(x) == TRUE

\* if (json.thumbnail)
HasThumbnail(x) == Truthy(x.thumbnail)

\* const metadata = {...}; if (json.thumbnail) the GET is issued
ExtractMetadata ==
    /\ run.pc = "metadata"
    /\ run' = [run EXCEPT !.metadata.uploadDate = run.in.uploadDate,
                          !.gets = IF HasThumbnail(run.in) THEN @ + 1 ELSE @,
                          !.pc = IF HasThumbnail(run.in) THEN "thumbnail" ELSE "addMetadata"]
    /\ UNCHANGED mainVars

\* metadata.thumbnailBuffer = await downloadThumbnail(json.thumbnail)
ThumbnailSettled ==
    /\ run.pc = "thumbnail"
    /\ run' = [run EXCEPT !.metadata.thumbnailBuffer = run.in.fetch, !.pc = "addMetadata"]
    /\ UNCHANGED mainVars

\* addMetadata(outputPath, metadata): the tags object is built, or the catch
\* resolves false and the callback resolves the promise of yt_dlp
BuildTags ==
    /\ run.pc = "addMetadata"
    /\ LET r == [run EXCEPT !.calls = @ + 1, !.filePath = run.outputPath]
       IN  run' = IF YearThrows(run.metadata.uploadDate)
                  THEN Resolved([r EXCEPT !.tagged = "false"])
                  ELSE [r EXCEPT !.tags = Tags(run.metadata), !.pc = "write"]
    /\ UNCHANGED mainVars

\* const success = NodeID3.write(tags, filePath); resolve(success), and
\* resolve({title, path, status: 'success'}) back in the callback
WriteTags ==
    /\ run.pc = "write"
    /\ run' = Resolved([run EXCEPT !.writes = @ + 1, !.written = TRUE,
                                   !.tagged = AddMetadataResult(run.in.write)])
    /\ UNCHANGED mainVars

CallbackInit ==
    /\ run \in {StartOfCallback(x) : x \in CallbackInputs}
    /\ options = CHOOSE o \in setupCLI : TRUE
    /\ source = <<>>
    /\ links = <<>>
    /\ dir = "present"
    /\ pc = "start"
    /\ mode = "none"
    /\ limit = NaN
    /\ i = Num(0)
    /\ batch = <<>>
    /\ k = 1
    /\ task = [l \in 1..MaxLinks |-> NewTask]
    /\ completion = <<>>
    /\ reported = <<>>
    /\ listing = <<>>

CallbackNext ==
    \/ ExecCallback
    \/ ExtractMetadata
    \/ ThumbnailSettled
    \/ BuildTags
    \/ WriteTags

CallbackSpec == CallbackInit /\ [][CallbackNext]_vars

----------------------------------------------------------------------------
(* One whole call of yt_dlp step by step: the probe, the download, the callback *)

\* the tool's behaviour on the probe, the options of the call, and what the
\* download, the thumbnail request and the tag write come to
CallInput(p, c) ==
    [threw |-> p.threw, output |-> p.output, audioOnly |-> p.audioOnly, formatId |-> p.formatId,
     outputDir |-> p.outputDir, format |-> p.format,
     error |-> c.error, stderr |-> c.stderr, addMetadata |-> c.addMetadata,
     thumbnail |-> c.thumbnail, fetch |-> c.fetch, uploadDate |-> c.uploadDate, write |-> c.write]

CallTitles == {<<"b">>, <<"A", " ", "b">>, <<"!">>}

\* a probe that fails or prints one metadata line, with every output directory
\* and format; a download that fails or not; tagging on or off, with or without
\* a thumbnail, with every outcome of the fetch and of the write
CallInputs ==
    {CallInput(ProbeInputTo(th, <<Line(JsObj(JsStr(t), JsArray(GoodFormats)), FALSE)>>,
                            TRUE, JsUndefined, d, e),
               CallbackInput(er, JsStr(<<>>), am, tn, fe, ud, w)) :
         th \in BOOLEAN, t \in CallTitles, d \in OutputDirs, e \in OutputFormats,
         er \in BOOLEAN, am \in {JsTrue, JsFalse}, tn \in {JsUndefined, ThumbnailUrl},
         fe \in {JsBuffer, JsNull}, ud \in {JsUndefined, JsNumber(2024)},
         w \in TagWriteOutcomes}

StartOfCall(x) == StartOfRun(x) @@ StartOfCallback(x)

\* the download subprocess exits and exec calls back
DownloadReturns ==
    /\ run.pc = "launched"
    /\ run' = [run EXCEPT !.pc = "callback"]
    /\ UNCHANGED mainVars

CallInit ==
    /\ run \in {StartOfCall(x) : x \in CallInputs}
    /\ options = CHOOSE o \in setupCLI : TRUE
    /\ source = <<>>
    /\ links = <<>>
    /\ dir = "present"
    /\ pc = "start"
    /\ mode = "none"
    /\ limit = NaN
    /\ i = Num(0)
    /\ batch = <<>>
    /\ k = 1
    /\ task = [l \in 1..MaxLinks |-> NewTask]
    /\ completion = <<>>
    /\ reported = <<>>
    /\ listing = <<>>

CallNext ==
    \/ ProbeNext
    \/ DownloadReturns
    \/ CallbackNext

CallSpec == CallInit /\ [][CallNext]_vars

----------------------------------------------------------------------------
(* downloadThumbnail step by step, on one request *)

MaxChunks == 2

\* response.statusCode
StatusCodes == {200, 201, 204, 206, 301, 302, 304, 404, 500}

IsSuccessStatus2xx(statusCode) == statusCode \in 200..299

\* if (response.statusCode !== 200) { ...; resolve(null); return; }
IsSuccessStatus(statusCode) == statusCode = 200

\* what happens to one request: https.get throws on the url, or the request
\* emits 'error' before any response, or a response arrives with a status and a
\* body of some chunks that ends, fails or is cut off
ThumbnailInput(throws, event, statusCode, chunks, ending) ==
    [throws |-> throws, event |-> event, statusCode |-> statusCode, chunks |-> chunks,
     ending |-> ending]

ThumbnailInputs ==
    {ThumbnailInput(FALSE, "response", s, c, e) :
         s \in StatusCodes, c \in 0..MaxChunks, e \in {"end", "error", "aborted"}}
    \cup {ThumbnailInput(FALSE, "error", 200, 0, "end"), ThumbnailInput(TRUE, "error", 200, 0, "end")}

StartOfThumbnail(x) ==
    [pc |-> "get", in |-> x, gets |-> 0, listening |-> FALSE, chunks |-> 0, result |-> "pending"]

\* resolve(null)
ResolveNull(r) == [r EXCEPT !.pc = "resolved", !.result = "null"]

\* https.get(url, callback).on('error', ...), or the catch around it
HttpsGet ==
    /\ run.pc = "get"
    /\ run' = IF run.in.throws THEN ResolveNull(run)
              ELSE [run EXCEPT !.pc = "request", !.gets = 1]
    /\ UNCHANGED mainVars

\* the response callback: any status but 200 resolves null and returns; on 200
\* the 'data' and 'end' listeners are attached
ThumbnailResponse ==
    /\ run.pc = "request"
    /\ run.in.event = "response"
    /\ run' = IF ~IsSuccessStatus(run.in.statusCode) THEN ResolveNull(run)
              ELSE [run EXCEPT !.pc = "body", !.listening = TRUE]
    /\ UNCHANGED mainVars

\* .on('error', ...) of the request, before a response
ThumbnailRequestError ==
    /\ run.pc = "request"
    /\ run.in.event = "error"
    /\ run' = ResolveNull(run)
    /\ UNCHANGED mainVars

\* response.on('data', (chunk) => chunks.push(chunk))
ThumbnailData ==
    /\ run.pc = "body"
    /\ run.chunks < run.in.chunks
    /\ run' = [run EXCEPT !.chunks = @ + 1]
    /\ UNCHANGED mainVars

\* response.on('end', ...): resolve(Buffer.concat(chunks))
ThumbnailEnd ==
    /\ run.pc = "body"
    /\ run.chunks = run.in.chunks
    /\ run.in.ending = "end"
    /\ run' = [run EXCEPT !.pc = "resolved", !.result = "buffer"]
    /\ UNCHANGED mainVars

\* the socket fails while the body is read: the request emits 'error'
ThumbnailBodyError ==
    /\ run.pc = "body"
    /\ run.in.ending = "error"
    /\ run' = ResolveNull(run)
    /\ UNCHANGED mainVars

\* the response is cut off: no 'end' and no event the code listens to
ThumbnailAborted ==
    /\ run.pc = "body"
    /\ run.chunks = run.in.chunks
    /\ run.in.ending = "aborted"
    /\ run' = [run EXCEPT !.pc = "hung"]
    /\ UNCHANGED mainVars

ThumbnailInit ==
    /\ run \in {StartOfThumbnail(x) : x \in ThumbnailInputs}
    /\ options = CHOOSE o \in setupCLI : TRUE
    /\ source = <<>>
    /\ links = <<>>
    /\ dir = "present"
    /\ pc = "start"
    /\ mode = "none"
    /\ limit = NaN
    /\ i = Num(0)
    /\ batch = <<>>
    /\ k = 1
    /\ task = [l \in 1..MaxLinks |-> NewTask]
    /\ completion = <<>>
    /\ reported = <<>>
    /\ listing = <<>>

ThumbnailNext ==
    \/ HttpsGet
    \/ ThumbnailResponse
    \/ ThumbnailRequestError
    \/ ThumbnailData
    \/ ThumbnailEnd
    \/ ThumbnailBodyError
    \/ ThumbnailAborted

ThumbnailSpec == ThumbnailInit /\ [][ThumbnailNext]_vars

----------------------------------------------------------------------------
(* One window of main(): batch.map(link => yt_dlp(link, ...)) with the titles
   and the output paths of its links *)

MaxWindow == 2

\* titles of links of one window: equal titles (a link bookmarked twice),
\* titles that differ and have the same sanitized stem, and others
BatchTitles == {<<"b">>, <<"B">>, <<"A", " ", "b">>, <<"a", "_", "b">>, <<"c">>}

\* the probe of one link of the window: it fails, or it prints a metadata line
BatchProbes(outputDir) ==
    {ProbeInputTo(th, <<Line(JsObj(JsStr(t), JsArray(GoodFormats)), FALSE)>>,
                  TRUE, JsUndefined, outputDir, JsUndefined) :
         th \in BOOLEAN, t \in BatchTitles}

RECURSIVE SeqsOfLen(_, _)
SeqsOfLen(S, n) ==
    IF n = 0 THEN {<<>>}
    ELSE {Append(q, x) : q \in SeqsOfLen(S, n - 1), x \in S}

\* the windows: 1..MaxWindow links, all called with the same output directory
BatchInputs ==
    UNION {SeqsOfLen(BatchProbes(JsStr(d)), n) : n \in 1..MaxWindow, d \in Outputs}

NotCalled == [state |-> "NotStarted", outputPath |-> <<>>]

StartOfBatch(calls) ==
    [pc |-> "map", in |-> calls, k |-> 1, call |-> [j \in 1..Len(calls) |-> NotCalled]]

\* the synchronous part of yt_dlp for one link: the download is launched with
\* its output path, or the promise is rejected
Launched(x) ==
    IF ProbeOutcome(x) = "ok"
    THEN [state |-> "Downloading",
          outputPath |-> OutputPath(x.outputDir,
                                    Sanitize(FirstOf(ParsedValues(x.output)).title.s), x.format)]
    ELSE [state |-> "Failed", outputPath |-> <<>>]

\* batch.map calls yt_dlp for the next link of the window
BatchCall ==
    /\ run.pc = "map"
    /\ run.k <= Len(run.in)
    /\ run' = [run EXCEPT !.call[run.k] = Launched(run.in[run.k]), !.k = @ + 1]
    /\ UNCHANGED mainVars

\* batch.map returns and main() awaits Promise.allSettled
BatchAwait ==
    /\ run.pc = "map"
    /\ run.k > Len(run.in)
    /\ run' = [run EXCEPT !.pc = "await"]
    /\ UNCHANGED mainVars

\* the callback of exec for link j: the download failed, or the file at
\* outputPath is complete and the metadata block begins
BatchDownloaded(j) ==
    /\ run.pc = "await"
    /\ j <= Len(run.in)
    /\ run.call[j].state = "Downloading"
    /\ \E error \in BOOLEAN :
           run' = [run EXCEPT !.call[j].state = IF error THEN "Failed" ELSE "Tagging"]
    /\ UNCHANGED mainVars

\* addMetadata(outputPath, metadata) has resolved and the promise is resolved
BatchTagged(j) ==
    /\ run.pc = "await"
    /\ j <= Len(run.in)
    /\ run.call[j].state = "Tagging"
    /\ run' = [run EXCEPT !.call[j].state = "Done"]
    /\ UNCHANGED mainVars

BatchInit ==
    /\ run \in {StartOfBatch(calls) : calls \in BatchInputs}
    /\ options = CHOOSE o \in setupCLI : TRUE
    /\ source = <<>>
    /\ links = <<>>
    /\ dir = "present"
    /\ pc = "start"
    /\ mode = "none"
    /\ limit = NaN
    /\ i = Num(0)
    /\ batch = <<>>
    /\ k = 1
    /\ task = [l \in 1..MaxLinks |-> NewTask]
    /\ completion = <<>>
    /\ reported = <<>>
    /\ listing = <<>>

BatchNext ==
    \/ BatchCall
    \/ BatchAwait
    \/ \E j \in 1..MaxWindow : BatchDownloaded(j)
    \/ \E j \in 1..MaxWindow : BatchTagged(j)

BatchSpec == BatchInit /\ [][BatchNext]_vars

----------------------------------------------------------------------------
(* Properties *)

Terminated == pc \in {"done", "listed", "caught", "invalidIndex", "singleDone", "noLinks"}

ValidLimit == ~limit.nan /\ limit.n >= 1

\* the window of link l under a valid limit (windows and links counted from 0 and 1)
WindowOf(l) == (l - 1) \div limit.n

InFlight == {l \in 1..MaxLinks : Started(task[l]) /\ ~Settled(task[l])}

Downloading == {l \in 1..MaxLinks : task[l].dl = "running"}

\* C1: window barrier.  In batch mode with a limit K >= 1, a task of a later
\* window is started (its probe included) only when every task of every
\* earlier window has settled, as Done or as Failed.
C1_WindowBarrier ==
    (mode = "batch" /\ ValidLimit) =>
        \A l, m \in 1..N :
            (WindowOf(m) < WindowOf(l) /\ Started(task[l])) => Settled(task[m])

\* a task of the second window is probing after the first window settled with
\* one success and one failure
C1_Witness ==
    /\ mode = "batch" /\ limit = Num(2) /\ N >= 3
    /\ task[3].state = "Probing"
    /\ task[1].state = "Done" /\ task[2].state = "Failed"

\* C2: concurrency bound.  In batch mode with configured limit K, whenever
\* tasks are started and not yet settled there are at most K of them, and
\* whenever download subprocesses run there are at most K of them.
C2_ConcurrencyBound ==
    (mode = "batch" /\ ~limit.nan) =>
        /\ InFlight # {} => Cardinality(InFlight) <= limit.n
        /\ Downloading # {} => Cardinality(Downloading) <= limit.n

\* the bound of C2 restricted to limits >= 0: it holds there
ConcurrencyBoundNonNegativeLimit ==
    (mode = "batch" /\ ~limit.nan /\ limit.n >= 0) =>
        /\ Cardinality(InFlight) <= limit.n
        /\ Cardinality(Downloading) <= limit.n

\* C3: failure isolation.  In batch mode a Failed task never sends main()
\* into its catch; when main() awaits a window every sibling has been
\* launched; a settled task is Failed only for its own probe or download;
\* with a limit K >= 1 the run ends with every link settled; and 5 links with
\* limit 2 where only the third link fails, at its probe, end as success,
\* success, failure, success, success.
C3_FailureIsolation ==
    /\ mode = "batch" => pc # "caught"
    /\ (mode = "batch" /\ pc = "await") =>
            \A j \in 1..Len(batch) : Started(task[batch[j]])
    /\ \A l \in 1..N :
            Settled(task[l]) =>
                (task[l].state = "Failed" <=> task[l].dl \in {"none", "exitedErr"})
    /\ (mode = "batch" /\ ValidLimit /\ pc = "done") =>
            \A l \in 1..N : Settled(task[l])
    /\ ( /\ mode = "batch" /\ pc = "done" /\ N = 5 /\ limit = Num(2)
         /\ task[3].dl = "none"
         /\ \A l \in {1, 2, 4, 5} : task[l].dl = "exitedOk" )
       => [j \in 1..5 |-> reported[j].status]
            = <<"fulfilled", "fulfilled", "rejected", "fulfilled", "fulfilled">>

\* the run of 5 links with limit 2 is over and only the third link failed, at its probe
C3_Witness ==
    /\ mode = "batch" /\ pc = "done" /\ N = 5 /\ limit = Num(2)
    /\ task[3].state = "Failed" /\ task[3].dl = "none"
    /\ \A l \in {1, 2, 4, 5} : task[l].state = "Done"
    /\ Len(reported) = 5

\* C4: exactly one outcome per input link.  When a batch run is over, N
\* result lines have been logged, one for each input link and none twice.
C4_OneOutcomePerLink ==
    (mode = "batch" /\ pc = "done") =>
        /\ Len(reported) = N
        /\ \A l \in 1..N : Cardinality({j \in 1..Len(reported) : reported[j].link = l}) = 1

\* the statement of C4 restricted to limits >= 1: it holds there
OneOutcomePerLinkValidLimit ==
    (mode = "batch" /\ pc = "done" /\ ValidLimit) =>
        /\ Len(reported) = N
        /\ \A l \in 1..N : Cardinality({j \in 1..Len(reported) : reported[j].link = l}) = 1

\* C5: index alignment.  The result line at position j is about input link j
\* and carries the outcome of the task run for link j, whatever the order in
\* which the tasks of a window settled.
C5_IndexAligned ==
    \A j \in 1..Len(reported) :
        /\ reported[j].link = j
        /\ reported[j].status = Status(task[j])

\* a window was reported whose second task succeeded before its first task failed
C5_Witness ==
    /\ mode = "batch" /\ pc = "loop" /\ Len(reported) >= 2
    /\ completion = <<2, 1>>
    /\ task[1].state = "Failed" /\ task[2].state = "Done"

\* C6: a settled task is Done exactly when its download subprocess exited
\* successfully (which needs a successful probe and format selection, since
\* only then is the download launched), and no task is settled while its
\* download is still running.
C6_SuccessIffDownloaded ==
    \A l \in 1..MaxLinks :
        /\ Settled(task[l]) =>
              /\ task[l].state = "Done" <=> task[l].dl = "exitedOk"
              /\ task[l].dl # "running"
        /\ task[l].dl # "none" => task[l].state \notin {"NotStarted", "Probing"}

\* one task is Done after its download exited successfully, another is
\* Failed after its download exited with an error, a third failed at its probe
C6_Witness ==
    \E l1, l2, l3 \in 1..N :
        /\ task[l1].state = "Done" /\ task[l1].dl = "exitedOk"
        /\ task[l2].state = "Failed" /\ task[l2].dl = "exitedErr"
        /\ task[l3].state = "Failed" /\ task[l3].dl = "none"

\* C7: when the thumbnail fetch of a task has failed (non-200 status, error
\* event, or an exception while the request is issued), the task goes on to
\* Done, provided every external call returns.
C7_ThumbnailFailureStillSuccess ==
    \A l \in 1..MaxLinks :
        (task[l].thumb = "null") ~> (task[l].state = "Done")

\* a task is Done although its thumbnail fetch yielded no thumbnail
C7_Witness ==
    \E l \in 1..N : task[l].state = "Done" /\ task[l].thumb = "null"

C9_NoTaskOnInvalidLimit ==
    (mode = "batch" /\ ~limit.nan /\ limit.n <= 0) =>
        \A l \in 1..MaxLinks : ~Started(task[l])

\* C10: every run of main() eventually leaves the window loop and ends,
\* provided every external call returns.
C10_RunCompletes == <>Terminated

----------------------------------------------------------------------------
(* Properties of yt_dlp, from the probe to the download command *)

\* the probe of the run failed: execSync threw, or the output holds the
\* unavailable marker, or no line of it parses as JSON
ProbeFailed ==
    \/ run.in.threw
    \/ \E j \in 1..Len(run.in.output) : run.in.output[j].marker
    \/ \A j \in 1..Len(run.in.output) : run.in.output[j].json = NotJson

\* C11: the download command is launched only after the probe of the link
\* succeeded and a format was selected; when the probe fails for any reason the
\* call ends rejected and no download command is launched.
C11_DownloadOnlyAfterProbe ==
    /\ run.cmd.launched =>
          /\ ~ProbeFailed
          /\ run.parsed
          /\ Truthy(run.formatId)
          /\ run.cmd.formatId = run.formatId
    /\ ProbeFailed =>
          /\ ~run.cmd.launched
          /\ run.pc \in {"execSync", "checkUnavailable", "parse", "rejected"}
    /\ run.pc = "rejected" => ~run.cmd.launched /\ run.error # "none"

\* the tool exits with a failure after it printed a metadata line, and the call is rejected
C11_Witness ==
    /\ run.pc = "rejected"
    /\ run.in.threw
    /\ \E j \in 1..Len(run.in.output) : run.in.output[j] = Line(GoodObject, FALSE)

\* C12: when the sanitized stem is empty the call is rejected and no download
\* command is launched.
C12_EmptyStemFails ==
    /\ (run.pc \in {"selectFormat", "exec", "launched"} /\ run.stem = <<>>) => run.pc = "rejected"
    /\ run.cmd.launched => run.cmd.stem # <<>>

\* C13: an explicit format id is used exactly as given, and the selection
\* succeeds with it also when the candidate list is empty or does not hold it.
C13_ExplicitFormatAlwaysSelected ==
    [][(/\ run.pc = "selectFormat"
        /\ Truthy(run.in.formatId)
        /\ PropFormats(run.json).t = "arr")
       => (run'.pc = "exec" /\ run'.formatId = run.in.formatId)]_vars

\* what holds of an explicit id: whenever the selection succeeds it is the
\* explicit id, unvalidated, also when no candidate has that id
ExplicitFormatUsedWhenSelected ==
    (run.pc \in {"exec", "launched"} /\ Truthy(run.in.formatId)) => run.formatId = run.in.formatId

\* C14: without an explicit format id the selected format is the first entry, in
\* the order of the probe, of the candidate list: the entries whose resolution is
\* exactly 'audio only' when audioOnly is set, else all entries; when the
\* candidate list is empty the call is rejected and nothing is downloaded.
C14_DefaultFormatIsFirstCandidate ==
    [][(/\ run.pc = "selectFormat"
        /\ ~Truthy(run.in.formatId)
        /\ PropFormats(run.json).t = "arr")
       => LET fs == run.json.formats.items
              cands == {j \in 1..Len(fs) :
                           run.in.audioOnly => fs[j].resolution = AudioOnlyLabel}
              first == CHOOSE j \in cands : \A m \in cands : j <= m
          IN  IF cands = {}
              THEN run'.pc = "rejected" /\ ~run'.cmd.launched
              ELSE run'.pc = "exec" /\ run'.formatId = fs[first].format_id]_vars

\* audio-only selection from a list that starts with a video format and holds
\* two audio formats: the first audio format, 140, is selected
C14_Witness ==
    /\ run.pc = "exec"
    /\ ~Truthy(run.in.formatId)
    /\ run.in.audioOnly
    /\ PropFormats(run.json) = JsArray(GoodFormats)
    /\ run.formatId = Audio140.format_id

\* the title of the run was sanitized
Sanitized ==
    \/ run.pc \in {"selectFormat", "exec", "launched"}
    \/ run.pc = "rejected" /\ run.error = "NoFormat"

\* a-z, 0-9, '.', '_' and '-'
StemAlphabet ==
    {"a", "b", "c", "d", "e", "f", "g", "h", "i", "j", "k", "l", "m",
     "n", "o", "p", "q", "r", "s", "t", "u", "v", "w", "x", "y", "z",
     "0", "1", "2", "3", "4", "5", "6", "7", "8", "9", ".", "_", "-"}

\* C15: for every non-empty title the sanitized stem holds only lower-case
\* letters, digits, '.', '_' and '-', and no whitespace.
C15_StemAlphabet ==
    (Sanitized /\ Len(run.json.title.s) > 0)
        => \A j \in 1..Len(run.stem) : run.stem[j] \in StemAlphabet

\* a title of an upper-case letter, a tab and a removed character
C15_Witness ==
    /\ Sanitized
    /\ run.json.title.s = <<"A", "\t", "!">>
    /\ run.stem = <<"a", "_">>

\* C16: the title "My Video: Part 1/2" is sanitized to "my_video_part_12".
C16_ExampleStem ==
    (Sanitized /\ run.json.title.s = ExampleTitle)
        => run.stem = <<"m", "y", "_", "v", "i", "d", "e", "o", "_",
                        "p", "a", "r", "t", "_", "1", "2">>

\* C16, amended: the title "My Video: Part 1/2" is sanitized to
\* "my_video__part_1_2": ':' and '/' become '_' before anything is removed.
C16_ExampleStemAmended ==
    (Sanitized /\ run.json.title.s = ExampleTitle)
        => run.stem = <<"m", "y", "_", "v", "i", "d", "e", "o", "_", "_",
                        "p", "a", "r", "t", "_", "1", "_", "2">>

C16_Witness ==
    /\ run.pc = "launched"
    /\ run.json.title.s = ExampleTitle
    /\ Len(run.cmd.stem) = 18

\* C17: the result of the probe is the first line of the output that parses as
\* JSON, whatever JSON value it is; the probe fails as unparseable only when no
\* line parses.
C17_FirstParsedLine ==
    run.parsed =>
        LET parsedAt == {j \in 1..Len(run.in.output) : run.in.output[j].json # NotJson}
            first == CHOOSE j \in parsedAt : \A m \in parsedAt : j <= m
        IN  /\ run.json = IF parsedAt = {} THEN JsUndefined ELSE run.in.output[first].json
            /\ run.error = "Unparseable" => parsedAt = {}

\* C18: when the output holds 'Video unavailable' anywhere the call is rejected
\* before any line is parsed, even when a line is valid JSON.
C18_UnavailableBeforeParsing ==
    (/\ ~run.in.threw
     /\ \E j \in 1..Len(run.in.output) : run.in.output[j].marker
     /\ run.pc \notin {"execSync", "checkUnavailable"})
        => /\ run.pc = "rejected"
           /\ run.error = "VideoUnavailable"
           /\ ~run.parsed
           /\ ~run.cmd.launched

\* a valid metadata line comes first and the marker is on the second line
C18_Witness ==
    /\ run.pc = "rejected"
    /\ run.error = "VideoUnavailable"
    /\ run.in.output = <<Line(GoodObject, FALSE), Line(NotJson, TRUE)>>

----------------------------------------------------------------------------
(* Properties of the thumbnail fetch and of the tag write *)

\* C19: the thumbnail fetch never raises or rejects; whatever happens to the
\* request (no or a malformed URL, no connection, a status other than 200, a
\* failure while the body is read) its promise settles, with the bytes or with
\* "no thumbnail".
C19_ThumbnailFetchSettles ==
    \A l \in 1..MaxLinks : task[l].state # "ThumbHung"

\* C20: the tag writer never raises: when the write throws or reports a failure
\* addMetadata resolves false, and it resolves true only when the write succeeded.
C20_TagWriterResolvesBoolean ==
    \A l \in 1..MaxLinks :
        task[l].tag # "none" =>
            /\ task[l].tag \in {"threw", "false", "error"} => task[l].tagged = "false"
            /\ task[l].tagged = "true" => task[l].tag = "true"

\* what holds of the tag writer: it never raises, it resolves false when the write
\* throws, and otherwise it resolves what the write returned
TagWriterResolvesWriteResult ==
    \A l \in 1..MaxLinks :
        task[l].tag # "none" =>
            task[l].tagged = IF task[l].tag = "threw" THEN "false" ELSE task[l].tag

----------------------------------------------------------------------------
(* Properties of the callback of exec and of the tag set *)

\* C21: the year tag is the first 4 characters of the upload-date string, and
\* the empty string when the upload date is absent or shorter than 4 characters.
C21_YearTag ==
    run.pc = "write" =>
        LET date == run.in.uploadDate
        IN  run.tags.year = IF date.t = "str" /\ Len(date.s) >= 4
                            THEN <<date.s[1], date.s[2], date.s[3], date.s[4]>>
                            ELSE <<>>

\* what holds of the year tag: it is the upload-date string cut after 4
\* characters, so a string shorter than 4 characters is the year tag as it is
YearTagIsPrefix ==
    run.pc = "write" =>
        LET date == run.in.uploadDate
        IN  run.tags.year = IF date.t = "str"
                            THEN [j \in 1..(IF Len(date.s) < 4 THEN Len(date.s) ELSE 4) |-> date.s[j]]
                            ELSE <<>>

\* C22: the tag set written to the file carries a front-cover image entry, of
\* MIME type image/jpeg, if and only if a thumbnail buffer is present.
C22_CoverIffThumbnail ==
    run.written =>
        LET present == run.gets = 1 /\ run.in.fetch = JsBuffer
        IN  /\ present => (run.tags.image # JsUndefined /\ run.tags.image.mime = "image/jpeg"
                           /\ run.tags.image.imageBuffer = JsBuffer)
            /\ ~present => run.tags.image = JsUndefined

C24_DownloadFailureAndStderr ==
    run.pc # "callback" =>
        IF run.in.error
        THEN run.pc = "rejected" /\ run.gets = 0 /\ ~run.written
        ELSE /\ run.pc # "rejected"
             /\ run.warned = (run.in.stderr # JsStr(<<>>))

\* a download that exited successfully with text on stderr is resolved, tagged
C24_Witness ==
    /\ run.pc = "resolved"
    /\ ~run.in.error
    /\ run.in.stderr = JsStr(<<"W">>)
    /\ run.warned
    /\ run.written

----------------------------------------------------------------------------
(* Properties of main(): failures, list mode, index mode, keyword *)

\* C25: main() never escalates a failure.  Whether items fail in batch mode, the
\* single download fails, or the setup throws, main() ends by returning, with
\* the error logged; in batch mode it ends with the final completion message
\* also when every item failed.
C25_FailuresNeverEscalate ==
    /\ pc \in {"start", "loop", "map", "await",
               "done", "listed", "caught", "invalidIndex", "singleDone", "noLinks"}
    /\ (mode = "batch" /\ pc \notin {"loop", "map", "await"}) => pc = "done"
    /\ (mode = "single" /\ pc \notin {"map", "await"}) =>
            pc = IF task[batch[1]].state = "Done" THEN "singleDone" ELSE "caught"
    /\ (mode = "none" /\ pc = "caught") => \A l \in 1..MaxLinks : ~Started(task[l])

\* the single download failed and main() ended in its catch
SingleFailureIsCaught ==
    /\ mode = "single"
    /\ pc = "caught"
    /\ task[batch[1]].state = "Failed"

\* every item of a batch run of three windows failed, and main() logged the
\* final completion message
C25_Witness ==
    /\ mode = "batch"
    /\ pc = "done"
    /\ N = 3 /\ limit = Num(1)
    /\ \A l \in 1..N : task[l].state = "Failed"
    /\ Len(reported) = 3

\* the link has the keyword of the run as a substring (every link, without a keyword)
HasKeyword(link) ==
    options.keyword.t = "str" =>
        \E p \in 1..Len(link) :
            /\ p + Len(options.keyword.s) - 1 <= Len(link)
            /\ \A q \in 1..Len(options.keyword.s) : link[p + q - 1] = options.keyword.s[q]

\* the positions of the loaded list that survive the keyword filter
Survivors == {j \in 1..Len(source) : HasKeyword(source[j])}

\* the place of position j among the survivors
Rank(j) == Cardinality({m \in Survivors : m <= j})

\* C26: in list mode no download task is ever started and no output directory
\* is created, whatever the index, concurrency and output options are; the
\* links that pass the keyword filter, and only they, are listed in their order
\* with their indices from 0.
C26_ListModeOnlyLists ==
    options.list =>
        /\ \A l \in 1..MaxLinks : ~Started(task[l])
        /\ dir # "created"
        /\ mode = "none"
        /\ pc \in {"start", "listed", "noLinks"}
        /\ pc = "listed" =>
              /\ Len(listing) = Cardinality(Survivors)
              /\ reported = <<>>
              /\ \A j \in Survivors : listing[Rank(j)] = [index |-> Rank(j) - 1, link |-> source[j]]

\* list mode with an index, an output directory that does not exist and a
\* keyword: two of three links are listed
C26_Witness ==
    /\ options.list
    /\ pc = "listed"
    /\ options.index.set
    /\ options.output # Dot /\ dir = "absent"
    /\ options.keyword = JsStr(<<"a">>)
    /\ Len(source) = 3
    /\ Len(listing) = 2

\* the index option as a number
IndexValue == ParseInt(options.index.text)

IndexInRange == ~IndexValue.nan /\ 0 <= IndexValue.n /\ IndexValue.n < Len(links)

\* C27: with the index option set to i (outside list mode), when 0 <= i < number
\* of filtered links exactly one task is run, the one of element i, and no batch
\* window is run; for any other value no task is started at all.
C27_IndexModeOneTask ==
    (options.index.set /\ ~options.list /\ pc # "start") =>
        /\ mode # "batch"
        /\ \A l \in 1..MaxLinks : Started(task[l]) => (IndexInRange /\ l = IndexValue.n + 1)
        /\ pc \in {"await", "singleDone"} => (IndexInRange /\ Started(task[IndexValue.n + 1]))
        /\ (IndexInRange /\ pc \notin {"caught", "noLinks"}) => mode = "single"
        /\ ~IndexInRange => pc \in {"invalidIndex", "caught", "noLinks"}

\* index 1 of three links: the second link's task is done, no other was started
C27_Witness ==
    /\ options.index.set /\ options.index.text = <<"1">>
    /\ pc = "singleDone"
    /\ Len(links) = 3
    /\ task[2].state = "Done"
    /\ task[1].state = "NotStarted" /\ task[3].state = "NotStarted"

\* C28: with a keyword, every link for which a task is started, in batch or in
\* index mode, and every link that is listed has the keyword as a substring, and
\* the links that survive keep their relative order.
C28_KeywordFilter ==
    (Truthy(options.keyword) /\ pc \notin {"start", "noLinks"}) =>
        /\ Len(links) = Cardinality(Survivors)
        /\ \A j \in Survivors : links[Rank(j)] = source[j]
        /\ \A l \in 1..MaxLinks : Started(task[l]) => (l <= Len(links) /\ HasKeyword(links[l]))
        /\ pc = "listed" => \A r \in 1..Len(listing) : HasKeyword(listing[r].link)

\* keyword "a" on the links "ab", "b", "a": the task of the second survivor,
\* the third link loaded, was started
C28_Witness ==
    /\ options.keyword = JsStr(<<"a">>)
    /\ Len(source) = 3
    /\ mode = "batch"
    /\ Started(task[2])
    /\ links[2] = source[3]

----------------------------------------------------------------------------
(* Properties of the probe and of the external calls inside a window *)

\* C29: the probe of a task does not block its siblings.  While one task of a
\* window waits for its probe subprocess, the completion of a sibling's
\* download, thumbnail response or tag write is handled, and a sibling's probe
\* can start.
C29_ProbeDoesNotBlockSiblings ==
    \A l, m \in 1..MaxLinks :
        (l # m /\ task[l].state = "Probing") =>
            /\ (task[m].state = "Downloading" /\ task[m].dl \in {"exitedOk", "exitedErr"})
                  => ENABLED DownloadCallback(m)
            /\ task[m].state = "Thumbnail" => ENABLED ThumbResponse(m)
            /\ task[m].state = "TagReady" => ENABLED TagWrite(m)

\* what holds instead: while a task is probing, the thread is inside execSync;
\* no other task is probing and no callback of a sibling is handled
ProbeBlocksTheThread ==
    \A l, m \in 1..MaxLinks :
        (l # m /\ task[l].state = "Probing") =>
            /\ task[m].state # "Probing"
            /\ ~ENABLED DownloadCallback(m)
            /\ ~ENABLED ThumbResponse(m)
            /\ ~ENABLED TagWrite(m)
            /\ ~ENABLED StartProbe(m)

\* link l is in the current window
InBatch(l) == \E j \in 1..Len(batch) : batch[j] = l

\* C30: there is no timeout and no cancellation.  As long as the probe or the
\* download command of a task has not returned, the task stays where it is and
\* does not settle, and no task outside its window is started.
C30_NoTimeout ==
    [][\A l \in 1..MaxLinks :
          /\ task[l].dl = "running" =>
                (task'[l].state = "Downloading" /\ task'[l].dl # "none")
          /\ task[l].state = "Probing" =>
                \A m \in 1..MaxLinks :
                    m # l => (task'[m].state = task[m].state)
          /\ (Started(task[l]) /\ ~Settled(task[l])) =>
                \A m \in 1..MaxLinks :
                    (~Started(task[m]) /\ Started(task'[m])) => (InBatch(l) /\ InBatch(m))]_vars

\* the download of the first link has not returned: the second link of its
\* window is settled, main() waits, and the third link is not started
C30_Witness ==
    /\ mode = "batch" /\ limit = Num(2) /\ N = 3
    /\ pc = "await"
    /\ task[1].dl = "running"
    /\ Settled(task[2])
    /\ task[3].state = "NotStarted"

----------------------------------------------------------------------------
(* Properties of the probe's exit status and of the thumbnail response *)

\* a line of the output parses to a metadata object
HasMetadataLine ==
    \E j \in 1..Len(run.in.output) :
        run.in.output[j].json # NotJson /\ run.in.output[j].json.t = "obj"

\* C31: the exit status of the probe is ignored whenever its output holds a
\* line of valid JSON.  A probe that exits with a failure after it printed a
\* metadata line still yields that metadata; the exit status only matters when
\* no line parses.
C31_ExitStatusIgnoredWithJson ==
    (/\ run.in.threw
     /\ HasMetadataLine
     /\ ~(\E j \in 1..Len(run.in.output) : run.in.output[j].marker)
     /\ run.pc # "execSync")
        => /\ run.error # "ToolFailure"
           /\ run.pc \notin {"checkUnavailable", "parse"} => (run.parsed /\ Truthy(run.json))

\* C31, amended: the exit status of the probe is tested first.  A probe that
\* exits with a failure, or cannot be spawned, rejects the call as a tool
\* failure whatever it printed; its output is read only when it exits with 0.
C31_ExitStatusDecidesFirst ==
    /\ (run.in.threw /\ run.pc # "execSync")
          => /\ run.pc = "rejected"
             /\ run.error = "ToolFailure"
             /\ ~run.parsed
             /\ run.json = JsUndefined
             /\ ~run.cmd.launched
    /\ (run.parsed \/ run.error \in {"VideoUnavailable", "Unparseable"}) => ~run.in.threw

\* the tool printed progress text and a metadata line, then exited with a
\* failure: the call is rejected as a tool failure, nothing was parsed
C31_Witness ==
    /\ run.in.threw
    /\ run.in.output = <<Line(NotJson, FALSE), Line(GoodObject, FALSE)>>
    /\ run.pc = "rejected"
    /\ run.error = "ToolFailure"
    /\ ~run.parsed

\* C32: a thumbnail response is a success only when its status is exactly 200.
\* Every other status, other 2xx and 3xx included, resolves "no thumbnail"
\* without a byte of the body read, and no second request follows a redirect.
C32_OnlyStatus200 ==
    /\ (/\ ~run.in.throws
        /\ run.in.event = "response"
        /\ run.in.statusCode # 200
        /\ run.pc \notin {"get", "request"})
          => /\ run.pc = "resolved"
             /\ run.result = "null"
             /\ ~run.listening
             /\ run.chunks = 0
             /\ run.gets = 1
    /\ run.result = "buffer" => (run.in.event = "response" /\ run.in.statusCode = 200)
    /\ run.gets <= 1

\* a redirect with a body of two chunks: resolved null after one request
C32_Witness ==
    /\ run.in.statusCode = 302
    /\ run.in.event = "response"
    /\ run.in.chunks = 2
    /\ run.pc = "resolved"
    /\ run.result = "null"
    /\ run.gets = 1

\* a 200 response whose body of two chunks was read to the end
ThumbnailRead ==
    /\ run.in.statusCode = 200
    /\ run.pc = "resolved"
    /\ run.result = "buffer"
    /\ run.chunks = 2

----------------------------------------------------------------------------
(* Properties of the start of a batch run *)

\* the run is a batch run: neither list mode nor single-index mode
BatchRun == ~options.list /\ ~options.index.set

\* C33: an invalid concurrency limit is the only condition that aborts a batch
\* run before any task starts.  With a valid limit and at least one link to
\* download, no error (such as a failure to create the output directory) ends
\* the run before the tasks of the first window are launched.
C33_OnlyInvalidLimitAborts ==
    (/\ BatchRun
     /\ pc # "start"
     /\ links # <<>>
     /\ LET c == ParseInt(options.concurrent) IN ~c.nan /\ c.n >= 1)
        => /\ pc # "caught"
           /\ Terminated => reported # <<>>

\* what holds instead: when the output directory cannot be created, main() ends
\* in its catch with no task started and nothing reported, whatever the limit
DirectoryFailureAborts ==
    (BatchRun /\ pc = "caught")
        => /\ dir = "absent"
           /\ options.output # Dot
           /\ \A l \in 1..MaxLinks : ~Started(task[l])
           /\ reported = <<>>

\* a batch run with the default limit and links to download ended in the catch
DirectoryFailureReached ==
    /\ BatchRun
    /\ pc = "caught"
    /\ links # <<>>
    /\ ParseInt(options.concurrent) = Num(3)

----------------------------------------------------------------------------
(* Properties of the probed metadata and of the outcome of a call *)

\* the parsed metadata has no title, or no format list
NoTitleOrNoFormats ==
    \/ run.json.t # "obj"
    \/ run.json.title.t \in {"undefined", "null"}
    \/ run.json.formats.t \in {"undefined", "null"}

\* C34: when the parsed metadata has no title, or no format list, the probe
\* counts as failed: the call is rejected in its own catch (nothing is thrown
\* out of it) and no download command is launched.
C34_MissingTitleOrFormatsFails ==
    (/\ run.parsed
     /\ Truthy(run.json)
     /\ NoTitleOrNoFormats
     /\ run.pc \notin {"sanitize", "selectFormat"})
        => /\ run.pc = "rejected"
           /\ run.error \in {"NoTitle", "NoFormat"}
           /\ ~run.cmd.launched

\* a metadata line with formats and no title: rejected, nothing launched
C34_Witness ==
    /\ run.pc = "rejected"
    /\ run.error = "NoTitle"
    /\ run.json.t = "obj"
    /\ run.json.title = JsUndefined
    /\ run.json.formats = JsArray(GoodFormats)
    /\ ~run.cmd.launched

\* a metadata line with a title and no format list: rejected, nothing launched
NoFormatListRejected ==
    /\ run.pc = "rejected"
    /\ run.error = "NoFormat"
    /\ run.json.t = "obj"
    /\ run.json.title = JsStr(<<"b">>)
    /\ run.json.formats = JsUndefined

\* the position of the last '/' of a path, 0 when there is none
LastSlash(p) ==
    LET at == {j \in 1..Len(p) : p[j] = "/"}
    IN  IF at = {} THEN 0 ELSE CHOOSE j \in at : \A m \in at : m <= j

\* the file name of a path, and the directory it lies in
Basename(p) == SubSeq(p, LastSlash(p) + 1, Len(p))

Dirname(p) == IF LastSlash(p) = 0 THEN <<".">> ELSE SubSeq(p, 1, LastSlash(p) - 1)

\* the value of a string option, d when it is missing or empty
GivenOr(v, d) == IF v.t = "str" /\ v.s # <<>> THEN v.s ELSE d

\* C35: a Success outcome carries as title the sanitized stem of the probed
\* title and as path the file <stem>.<extension> in the output directory
\* (defaults '.' and 'mp3'); the same path was given to the download command
\* and to the tag writer.
C35_SuccessTitleAndPath ==
    run.value.status = "success" =>
        /\ run.value.title = Sanitize(run.json.title.s)
        /\ Basename(run.value.path) =
               run.value.title \o <<".">> \o GivenOr(run.in.format, <<"m", "p", "3">>)
        /\ Dirname(run.value.path) = GivenOr(run.in.outputDir, <<".">>)
        /\ run.cmd.launched
        /\ run.cmd.outputPath = run.value.path
        /\ run.calls > 0 => run.filePath = run.value.path

\* title 'A b' into the directory 'out' as m4a: the success carries
\* 'out/a_b.m4a', and the tags were written to that path
C35_Witness ==
    /\ run.value = SuccessValue(<<"a", "_", "b">>,
                                <<"o", "u", "t", "/", "a", "_", "b", ".", "m", "4", "a">>)
    /\ run.json.title.s = <<"A", " ", "b">>
    /\ run.writes = 1
    /\ run.filePath = run.value.path

\* without an output directory and a format the path is 'b.mp3'
DefaultPathReached ==
    /\ run.value.status = "success"
    /\ run.in.outputDir = JsUndefined
    /\ run.in.format = JsUndefined
    /\ run.value.path = <<"b", ".", "m", "p", "3">>

----------------------------------------------------------------------------
(* Properties of the output files of one window *)

\* call j of the window is writing its media file: downloading or tagging
Writing(j) == run.call[j].state \in {"Downloading", "Tagging"}

\* C36: every successfully downloaded link has a media file of its own.  No two
\* tasks that are downloading or tagging at the same time write to the same
\* output path, also when two links of one window have titles with the same
\* sanitized stem.
C36_OwnMediaFile ==
    \A j, m \in 1..Len(run.in) :
        (j # m /\ Writing(j) /\ Writing(m)) => run.call[j].outputPath # run.call[m].outputPath

\* what holds instead: the output path is a function of the stem alone; two
\* links write to different files exactly when their stems differ
PathFollowsStem ==
    \A j, m \in 1..Len(run.in) :
        (Writing(j) /\ Writing(m)) =>
            ((run.call[j].outputPath = run.call[m].outputPath)
                <=> (Sanitize(run.in[j].output[1].json.title.s)
                         = Sanitize(run.in[m].output[1].json.title.s)))

\* the titles 'A b' and 'a_b' of one window: one download is running into
\* 'out/a_b.mp3' while the other link's file of the same name is being tagged
SameFileReached ==
    /\ Len(run.in) = 2
    /\ run.in[1].output[1].json.title.s = <<"A", " ", "b">>
    /\ run.in[2].output[1].json.title.s = <<"a", "_", "b">>
    /\ run.call[1].state = "Tagging"
    /\ run.call[2].state = "Downloading"
    /\ run.call[1].outputPath = <<"o", "u", "t", "/", "a", "_", "b", ".", "m", "p", "3">>
    /\ run.call[2].outputPath = run.call[1].outputPath

----------------------------------------------------------------------------
(* Properties of the order and the number of the steps of one call *)

\* the download succeeded and tagging is enabled
TaggingDue == ~run.in.error /\ run.in.addMetadata # JsFalse

\* C37: for a task whose download succeeded with tagging enabled the tag writer
\* is called exactly once, with or without a thumbnail: at once when the probe
\* has no thumbnail URL (no GET is issued), else only after the thumbnail fetch
\* has settled; and the task settles only after the tag writer has returned.
C37_TagWriteOnceInOrder ==
    /\ run.calls <= 1
    /\ run.calls = 1 => TaggingDue
    /\ (TaggingDue /\ run.pc = "resolved") => (run.calls = 1 /\ run.tagged # "none")
    /\ (TaggingDue /\ run.value.status = "success") => run.pc = "resolved"
    /\ (TaggingDue /\ run.pc \in {"addMetadata", "write", "resolved"}) =>
          IF run.in.thumbnail = JsUndefined
          THEN run.gets = 0 /\ run.metadata.thumbnailBuffer = JsUndefined
          ELSE run.gets = 1 /\ run.metadata.thumbnailBuffer = run.in.fetch
    /\ run.pc \in {"callback", "metadata", "thumbnail"} =>
          (run.calls = 0 /\ run.value.status = "pending")
    /\ run.pc = "write" => (run.calls = 1 /\ run.value.status = "pending")

\* a download without a thumbnail URL: tagged once, no GET, then resolved
C37_Witness ==
    /\ TaggingDue
    /\ run.in.thumbnail = JsUndefined
    /\ run.pc = "resolved"
    /\ run.calls = 1
    /\ run.writes = 1
    /\ run.gets = 0
    /\ run.value.status = "success"

\* a download whose thumbnail fetch gave nothing: tagged once after the fetch
TaggedAfterFailedFetch ==
    /\ TaggingDue
    /\ run.in.thumbnail = ThumbnailUrl
    /\ run.in.fetch = JsNull
    /\ run.pc = "resolved"
    /\ run.calls = 1
    /\ run.gets = 1

\* C38: no step is retried.  Over a whole run every input link causes exactly
\* one probe, and at most one download, one thumbnail GET and one tag write.
C38_OneProbePerLinkNoRetry ==
    /\ (BatchRun /\ pc = "done") => \A l \in 1..N : Started(task[l])
    /\ \A l \in 1..MaxLinks : (l > N => ~Started(task[l]))

\* what holds of a batch run with a limit K >= 1: when it is over every link
\* was probed and has settled
EveryLinkProbedValidLimit ==
    (BatchRun /\ pc = "done" /\ ValidLimit) => \A l \in 1..N : Settled(task[l])

\* how far a task has come
Progress(t) ==
    CASE t.state = "NotStarted" -> 0
      [] t.state = "Probing" -> 1
      [] t.state = "Downloading" -> IF t.dl = "running" THEN 2 ELSE 3
      [] t.state = "Thumbnail" -> 4
      [] t.state \in {"ThumbBody", "ThumbHung"} -> 5
      [] t.state = "TagReady" -> 6
      [] t.state = "Tagged" -> 7
      [] OTHER -> 8

\* what holds whatever the limit: a task never goes back to a step it has
\* left, so no link is probed, downloaded, fetched for or tagged a second time
NoStepGoesBack ==
    [][\A l \in 1..MaxLinks :
          /\ Progress(task'[l]) >= Progress(task[l])
          /\ (Progress(task'[l]) = Progress(task[l]) /\ task'[l].state # "ThumbHung")
                => task'[l].state = task[l].state]_vars

\* and within one call: one execSync, at most one exec, one GET, one call of
\* addMetadata and one NodeID3.write
NoStepRetriedInCall ==
    /\ run.probes = (IF run.pc = "execSync" THEN 0 ELSE 1)
    /\ run.execs = (IF run.cmd.launched THEN 1 ELSE 0)
    /\ run.gets <= 1
    /\ run.calls <= 1
    /\ run.writes <= run.calls

\* a batch run with an unparseable limit is over and no link was probed
NoProbeAtAll ==
    /\ BatchRun
    /\ pc = "done"
    /\ N = 2
    /\ limit.nan
    /\ \A l \in 1..N : ~Started(task[l])

----------------------------------------------------------------------------
(* Properties of the order of the probes and of the windows *)

Probing == {l \in 1..MaxLinks : task[l].state = "Probing"}

\* C39: probes are serialized.  At any instant at most one probe is in progress
\* in the whole run; probes start in the order of the links; the probe of the
\* k-th link of a window starts only after the task of the link before it has
\* launched its download or failed; and no download completion of the window
\* is handled before the last probe of the window has returned.
C39_ProbesSerialized ==
    /\ Cardinality(Probing) <= 1
    /\ \A l \in Probing :
          /\ pc = "map" /\ k <= Len(batch) /\ batch[k] = l
          /\ \A m \in 1..MaxLinks : m > l => ~Started(task[m])
          /\ \A j \in 1..(k - 1) : task[batch[j]].state \in {"Downloading", "Failed"}
    /\ pc = "map" =>
          \A j \in 1..Len(batch) :
              \/ task[batch[j]].state \in {"NotStarted", "Probing", "Downloading"}
              \/ task[batch[j]].state = "Failed" /\ task[batch[j]].kind # "DownloadError"

\* the download of the first link of a window has exited while the probe of
\* the second link is running: the completion is not handled yet
C39_Witness ==
    /\ pc = "map"
    /\ mode = "batch"
    /\ Len(batch) = 3
    /\ task[batch[1]].state = "Downloading" /\ task[batch[1]].dl = "exitedOk"
    /\ task[batch[2]].state = "Probing"
    /\ task[batch[3]].state = "NotStarted"

\* ceil(n / d) for d >= 1
CeilDiv(n, d) == (n + d - 1) \div d

\* C40: for a limit K >= 1 and N links the windows are the consecutive slices
\* links[0..K), links[K..2K), ... in input order: there are ceil(N/K) windows,
\* each of size K except possibly a smaller last one, and every link belongs to
\* exactly one window (5 links with K = 2 give windows of sizes 2, 2, 1).
C40_WindowsPartition ==
    (mode = "batch" /\ ValidLimit) =>
        /\ ~i.nan /\ i.n >= 0 /\ i.n % limit.n = 0
        /\ i.n <= limit.n * CeilDiv(N, limit.n)
        /\ pc = "done" => i.n = limit.n * CeilDiv(N, limit.n)
        /\ pc \in {"map", "await"} =>
              /\ i.n < N
              /\ Len(batch) = (IF N - i.n < limit.n THEN N - i.n ELSE limit.n)
              /\ \A j \in 1..Len(batch) : batch[j] = i.n + j
              /\ \A l \in 1..N :
                     (\E j \in 1..Len(batch) : batch[j] = l) <=> ((l - 1) \div limit.n = i.n \div limit.n)

\* 5 links with the limit 2: the third window holds the fifth link alone, and
\* the four links of the two windows before it have settled
C40_Witness ==
    /\ mode = "batch"
    /\ N = 5
    /\ limit = Num(2)
    /\ pc = "await"
    /\ i = Num(4)
    /\ batch = <<5>>
    /\ Len(reported) = 4
    /\ \A l \in 1..4 : Settled(task[l])

====
